---- MODULE Spec2Model ----
(***************************************************************************)
(* Model of lib/common/utils.js of btc-wallet-client: the pure utility     *)
(* functions of the wallet core (message encryption, message signatures,   *)
(* proposal hashes, address derivation, amount formatting, transaction     *)
(* assembly).  Every function is stateless, so the state of the model is   *)
(* one call: the operation, its arguments and what it returned or threw.   *)
(***************************************************************************)
EXTENDS Integers, Sequences, FiniteSets, TLC

VARIABLES op, args, ret

vars == <<op, args, ret>>

\* No call has been made: the module keeps no state of its own.
Init ==
  /\ op = "none"
  /\ args = <<>>
  /\ ret = <<>>

\* ---------------------------------------------------------------- bounds
MaxInputs == 2
MaxOutputs == 2

\* ---------------------------------------------------------------- helpers
\* Sequences over S of length 0..n.
SeqUpTo(S, n) == UNION {[1..k -> S] : k \in 0..n}

RECURSIVE SumSat(_)
SumSat(s) == IF s = <<>> THEN 0 ELSE s[1].satoshis + SumSat(Tail(s))

\* ============================================================ Constants
\* Constants.SCRIPT_TYPES (lib/common/constants.js).
SCRIPT_TYPES == {"P2SH", "P2PKH"}

\* Defaults.MAX_TX_FEE (lib/common/defaults.js): 1 * 1e8.
MAX_TX_FEE == 100000000

\* ============================================================== buildTx
\* A transaction plan (txp) is a record
\*   addressType, requiredSignatures, inputs, toAddress, amount, outputs,
\*   fee, changeAddress, outputOrder.
\* An absent string is "", an absent amount is <<>> (present: <<n>>), an
\* absent output list has present = FALSE.  Each input is a utxo carrying
\* satoshis, publicKeys and (per the data model) a threshold of its own.

\* buildTx, lines 179-188: attach the inputs.  P2SH: one t.from per input
\* with the input's publicKeys and the PLAN's requiredSignatures.
\* P2PKH: t.from(list), no keys and no threshold.
AttachInputsSharedKeys(txp) ==
  IF txp.addressType = "P2SH"
  THEN [k \in 1..Len(txp.inputs) |->
          [utxo |-> txp.inputs[k].txid, satoshis |-> txp.inputs[k].satoshis,
           kind |-> "multisig", publicKeys |-> txp.inputs[1].publicKeys,
           threshold |-> txp.requiredSignatures]]
  ELSE [k \in 1..Len(txp.inputs) |->
          [utxo |-> txp.inputs[k].txid, satoshis |-> txp.inputs[k].satoshis,
           kind |-> "plain", publicKeys |-> <<>>, threshold |-> 0]]

AttachInputs(txp) ==
  IF txp.addressType = "P2SH"
  THEN [k \in 1..Len(txp.inputs) |->
          [utxo |-> txp.inputs[k].txid, satoshis |-> txp.inputs[k].satoshis,
           kind |-> "multisig", publicKeys |-> txp.inputs[k].publicKeys,
           threshold |-> txp.requiredSignatures]]
  ELSE [k \in 1..Len(txp.inputs) |->
          [utxo |-> txp.inputs[k].txid, satoshis |-> txp.inputs[k].satoshis,
           kind |-> "plain", publicKeys |-> <<>>, threshold |-> 0]]

\* One entry of txp.outputs, lines 195-202: the raw script when there is
\* one, the address otherwise.
OutputOfAddressFirst(o) ==
  IF o.toAddress # ""
  THEN [to |-> "address", dest |-> o.toAddress, satoshis |-> o.amount]
  ELSE [to |-> "script", dest |-> o.script, satoshis |-> o.amount]

OutputOf(o) ==
  IF o.script # ""
  THEN [to |-> "script", dest |-> o.script, satoshis |-> o.amount]
  ELSE [to |-> "address", dest |-> o.toAddress, satoshis |-> o.amount]

\* buildTx, lines 190-204.  The outputs are added one by one; the first
\* entry with neither script nor toAddress throws (checkState).
AddOutputs(txp) ==
  IF txp.toAddress # "" /\ txp.amount # <<>> /\ txp.amount # <<0>>
     /\ ~txp.outputs.present
  THEN [err |-> "none",
        outs |-> <<[to |-> "address", dest |-> txp.toAddress,
                    satoshis |-> txp.amount[1]]>>]
  ELSE IF txp.outputs.present
  THEN IF \E k \in 1..Len(txp.outputs.list) :
            txp.outputs.list[k].script = "" /\ txp.outputs.list[k].toAddress = ""
       THEN [err |-> "StateError", outs |-> <<>>]
       ELSE [err |-> "none",
             outs |-> [k \in 1..Len(txp.outputs.list) |-> OutputOf(txp.outputs.list[k])]]
  ELSE [err |-> "none", outs |-> <<>>]

\* buildTx, lines 206-207: t.fee(fee); t.change(address).  The library
\* appends a change output worth inputs - outputs - fee when that is
\* positive, and none otherwise.
WithChange(txp, outs) ==
  LET changeAmount == SumSat(txp.inputs) - SumSat(outs) - txp.fee
  IN  IF changeAmount > 0
      THEN Append(outs, [to |-> "change", dest |-> txp.changeAddress,
                         satoshis |-> changeAmount])
      ELSE outs

\* buildTx, lines 211-213: _.reject(outputOrder, order >= t.outputs.length).
RECURSIVE RejectOutOfRangeOffByOne(_, _)
RejectOutOfRangeOffByOne(outputOrder, n) ==
  IF outputOrder = <<>> THEN <<>>
  ELSE IF outputOrder[1] > n
       THEN RejectOutOfRangeOffByOne(Tail(outputOrder), n)
       ELSE <<outputOrder[1]>> \o RejectOutOfRangeOffByOne(Tail(outputOrder), n)

RECURSIVE RejectOutOfRange(_, _)
RejectOutOfRange(outputOrder, n) ==
  IF outputOrder = <<>> THEN <<>>
  ELSE IF outputOrder[1] >= n
       THEN RejectOutOfRange(Tail(outputOrder), n)
       ELSE <<outputOrder[1]>> \o RejectOutOfRange(Tail(outputOrder), n)

\* buildTx, lines 215-219: t.sortOutputs(outputs -> map(order, outputs[i])).
\* The indices are 0-based; an index that names no output maps to
\* undefined.  The library compares the mapped list with t.outputs by
\* object identity and throws InvalidSorting unless it has the same length
\* and holds every output, i.e. unless the order is a permutation of
\* 0..n-1.
SortOutputsKeepOrder(outs, outputOrder) ==
  [err |-> "none", outs |-> outs]

SortOutputs(outs, outputOrder) ==
  IF \/ Len(outputOrder) # Len(outs)
     \/ \E i \in 0..(Len(outs) - 1) :
          \A k \in 1..Len(outputOrder) : outputOrder[k] # i
  THEN [err |-> "InvalidSorting", outs |-> outs]
  ELSE [err |-> "none",
        outs |-> [k \in 1..Len(outputOrder) |-> outs[outputOrder[k] + 1]]]

\* buildTx, lines 222-231: the balance check, independent of the library.
BalanceOkNoUpperBound(inputs, outs) ==
  SumSat(inputs) - SumSat(outs) >= 0

BalanceOk(inputs, outs) ==
  /\ SumSat(inputs) - SumSat(outs) >= 0
  /\ SumSat(inputs) - SumSat(outs) <= MAX_TX_FEE

\* A call that throws returns no transaction.  at is the step of buildTx
\* that threw; built and order are locals of buildTx (t.outputs before the
\* shuffle, the filtered outputOrder), kept as far as the call got.
Failed(e, at, built, order) ==
  [err |-> e, at |-> at, inputs |-> <<>>, outputs |-> <<>>,
   built |-> built, order |-> order]

\* Utils.buildTx, lines 174-234.
BuildTx(txp) ==
  IF txp.addressType \notin SCRIPT_TYPES
  THEN Failed("StateError", "addressType", <<>>, <<>>)
  ELSE
  LET ins   == AttachInputs(txp)
      added == AddOutputs(txp)
  IN  IF added.err # "none" THEN Failed(added.err, "outputs", <<>>, <<>>)
      ELSE
      LET built == WithChange(txp, added.outs)
          order == IF Len(built) > 1
                   THEN RejectOutOfRange(txp.outputOrder, Len(built))
                   ELSE <<>>
      IN  IF Len(built) > 1 /\ Len(built) # Len(order)
          THEN Failed("StateError", "outputOrder", built, order)
          ELSE
          LET sorted == IF Len(built) > 1 THEN SortOutputs(built, order)
                        ELSE [err |-> "none", outs |-> built]
          IN  IF sorted.err # "none"
              THEN Failed(sorted.err, "sortOutputs", built, order)
              ELSE IF ~BalanceOk(txp.inputs, sorted.outs)
              THEN Failed("StateError", "balance", built, order)
              ELSE [err |-> "none", at |-> "return", inputs |-> ins,
                    outputs |-> sorted.outs, built |-> built, order |-> order]

\* ------------------------------------------------------ plans enumerated
Utxos ==
  { [txid |-> "u1", satoshis |-> 5, publicKeys |-> <<"pkA", "pkB">>,
     requiredSignatures |-> 1],
    [txid |-> "u2", satoshis |-> MAX_TX_FEE + 3, publicKeys |-> <<"pkB", "pkC">>,
     requiredSignatures |-> 2] }

OutputEntries ==
  { [script |-> "s1", toAddress |-> "",      amount |-> 2],
    [script |-> "",   toAddress |-> "addrX", amount |-> 3],
    [script |-> "s2", toAddress |-> "addrY", amount |-> 0],
    [script |-> "",   toAddress |-> "",      amount |-> 1] }

ValidOutputEntries == {o \in OutputEntries : o.script # "" \/ o.toAddress # ""}

Destinations ==
  { [toAddress |-> "",      amount |-> <<>>],
    [toAddress |-> "addrT", amount |-> <<>>],
    [toAddress |-> "addrT", amount |-> <<0>>],
    [toAddress |-> "addrT", amount |-> <<4>>] }

OutputLists(S, n) ==
  {[present |-> FALSE, list |-> <<>>]}
    \cup {[present |-> TRUE, list |-> l] : l \in SeqUpTo(S, n)}

\* Plans that vary inputs, scheme, threshold, destination, outputs and fee.
BalancePlans ==
  { [addressType |-> at, requiredSignatures |-> m, inputs |-> ins,
     toAddress |-> d.toAddress, amount |-> d.amount, outputs |-> outs,
     fee |-> fee, changeAddress |-> "addrChange", outputOrder |-> ord] :
       at \in SCRIPT_TYPES, m \in {1, 2},
       ins \in SeqUpTo(Utxos, MaxInputs), d \in Destinations,
       outs \in OutputLists(OutputEntries, MaxOutputs),
       fee \in {0, 1, MAX_TX_FEE + 1},
       ord \in {<<>>, [k \in 1..(MaxOutputs + 1) |-> k - 1]} }

\* Plans that vary the output list and the output order.
OrderPlans ==
  { [addressType |-> "P2PKH", requiredSignatures |-> 1, inputs |-> ins,
     toAddress |-> "", amount |-> <<>>, outputs |-> outs,
     fee |-> 1, changeAddress |-> "addrChange", outputOrder |-> ord] :
       ins \in {<<u>> : u \in {x \in Utxos : x.satoshis < MAX_TX_FEE}},
       outs \in OutputLists(ValidOutputEntries, MaxOutputs),
       ord \in SeqUpTo(-1..(MaxOutputs + 1), MaxOutputs + 1) }

\* Plans whose addressType is none of SCRIPT_TYPES.
UnknownSchemePlans ==
  { [addressType |-> "P2WPKH", requiredSignatures |-> 1, inputs |-> ins,
     toAddress |-> d.toAddress, amount |-> d.amount,
     outputs |-> [present |-> FALSE, list |-> <<>>],
     fee |-> 1, changeAddress |-> "addrChange", outputOrder |-> <<>>] :
       ins \in SeqUpTo(Utxos, MaxInputs), d \in Destinations }

Plans == BalancePlans \cup OrderPlans \cup UnknownSchemePlans

\* One call per behaviour: the functions keep no state between calls.
CallBuildTx ==
  /\ op = "none"
  /\ \E txp \in Plans :
       /\ op' = "buildTx"
       /\ args' = txp
       /\ ret' = BuildTx(txp)

\* ======================================================= buildTx claims
IsBuildTx == op = "buildTx"

Recognized == IsBuildTx /\ args.addressType \in SCRIPT_TYPES

\* The outputs buildTx added itself: t.outputs without the change output.
NonChange(outs) == SelectSeq(outs, LAMBDA o : o.to # "change")

InRange(outputOrder, n) == SelectSeq(outputOrder, LAMBDA i : i >= 0 /\ i < n)

BelowLength(outputOrder, n) == SelectSeq(outputOrder, LAMBDA i : i < n)

\* The plan gets as far as assembling its outputs: the scheme is recognized
\* and every entry of an explicit output list has a script or an address.
Assembled ==
  /\ Recognized
  /\ args.outputs.present =>
       \A k \in 1..Len(args.outputs.list) :
         args.outputs.list[k].script # "" \/ args.outputs.list[k].toAddress # ""

BadBalance(inputs, outs) ==
  \/ SumSat(inputs) - SumSat(outs) < 0
  \/ SumSat(inputs) - SumSat(outs) > MAX_TX_FEE

\* C1: buildTx returns a transaction only if
\* 0 <= totalInputs - totalOutputs <= MAX_TX_FEE, the totals taken over the
\* plan's inputs and over the assembled outputs (change output included);
\* with any other balance nothing is returned, and the balance check
\* throws a state error exactly when the balance is outside that range.
C1_BalanceGuard ==
  IsBuildTx =>
    /\ ret.err = "none" =>
          /\ SumSat(args.inputs) - SumSat(ret.outputs) >= 0
          /\ SumSat(args.inputs) - SumSat(ret.outputs) <= MAX_TX_FEE
    /\ (Assembled /\ BadBalance(args.inputs, ret.built))
          => ret.err # "none" /\ ret.outputs = <<>>
    /\ ret.at = "balance"
          => ret.err = "StateError" /\ BadBalance(args.inputs, ret.built)

C1_Witness ==
  /\ IsBuildTx /\ ret.err = "none"
  /\ Len(ret.outputs) = 3
  /\ \E k \in 1..3 : ret.outputs[k].to = "change"
  /\ SumSat(args.inputs) - SumSat(ret.outputs) = 1

\* C2 as stated: with P2SH every input is attached with its own public
\* keys and its own required-signature count; with P2PKH the inputs are
\* attached as a flat list.
C2_OwnThreshold ==
  (IsBuildTx /\ ret.err = "none") =>
    /\ Len(ret.inputs) = Len(args.inputs)
    /\ \A k \in 1..Len(args.inputs) :
         /\ ret.inputs[k].utxo = args.inputs[k].txid
         /\ args.addressType = "P2SH" =>
              /\ ret.inputs[k].publicKeys = args.inputs[k].publicKeys
              /\ ret.inputs[k].threshold = args.inputs[k].requiredSignatures
         /\ args.addressType = "P2PKH" => ret.inputs[k].kind = "plain"

\* C2 amended: with P2SH every input is attached with its own public keys
\* and with the plan's one requiredSignatures, so all inputs of a plan get
\* the same threshold; with P2PKH the inputs are attached as a flat list.
C2_PlanThreshold ==
  (IsBuildTx /\ ret.err = "none") =>
    /\ Len(ret.inputs) = Len(args.inputs)
    /\ \A k \in 1..Len(args.inputs) :
         /\ ret.inputs[k].utxo = args.inputs[k].txid
         /\ args.addressType = "P2SH" =>
              /\ ret.inputs[k].kind = "multisig"
              /\ ret.inputs[k].publicKeys = args.inputs[k].publicKeys
              /\ ret.inputs[k].threshold = args.requiredSignatures
         /\ args.addressType = "P2PKH" =>
              /\ ret.inputs[k].kind = "plain"
              /\ ret.inputs[k].publicKeys = <<>>

C2_Witness ==
  /\ IsBuildTx /\ ret.err = "none" /\ args.addressType = "P2SH"
  /\ Len(args.inputs) = 2
  /\ args.inputs[1].requiredSignatures # args.inputs[2].requiredSignatures
  /\ args.inputs[1].publicKeys # args.inputs[2].publicKeys
  /\ ret.inputs[1].threshold = ret.inputs[2].threshold

\* C3: when more than one output exists and the filtered outputOrder has
\* as many entries as there are outputs, the returned transaction's output
\* at position k is the pre-reorder output at index outputOrder[k]; with
\* at most one output the sequence is left as built.
C3_Permuted ==
  (IsBuildTx /\ ret.err = "none") =>
    LET n     == Len(ret.built)
        order == InRange(args.outputOrder, n)
    IN  /\ (n > 1 /\ Len(order) = n) =>
             /\ Len(ret.outputs) = n
             /\ \A k \in 1..n : ret.outputs[k] = ret.built[order[k] + 1]
        /\ n <= 1 => ret.outputs = ret.built

C3_Witness ==
  /\ IsBuildTx /\ ret.err = "none"
  /\ Len(ret.built) = 3
  /\ args.outputOrder = <<2, 0, 1>>
  /\ ret.outputs = <<ret.built[3], ret.built[1], ret.built[2]>>
  /\ ret.outputs # ret.built

\* C4 as stated: with more than one output every out-of-range index of
\* outputOrder is dropped before reordering, and buildTx fails with a state
\* error whenever the number of remaining indices differs from the output
\* count.
C4_DropsOutOfRange ==
  (IsBuildTx /\ Len(ret.built) > 1) =>
    LET n == Len(ret.built) IN
    /\ ret.order = InRange(args.outputOrder, n)
    /\ Len(InRange(args.outputOrder, n)) # n
         => ret.err = "StateError" /\ ret.outputs = <<>>

\* C4 amended: with more than one output every index of outputOrder that
\* is greater than or equal to the output count is dropped before
\* reordering (an index below 0 is kept), and buildTx fails with a state
\* error whenever the number of remaining indices differs from the output
\* count.
C4_DropsTooLarge ==
  (IsBuildTx /\ Len(ret.built) > 1) =>
    LET n == Len(ret.built) IN
    /\ ret.order = BelowLength(args.outputOrder, n)
    /\ Len(BelowLength(args.outputOrder, n)) # n
         => ret.err = "StateError" /\ ret.outputs = <<>>

C4_Witness ==
  /\ IsBuildTx /\ Len(ret.built) = 2
  /\ args.outputOrder = <<3, 0>>
  /\ ret.order = <<0>>
  /\ ret.err = "StateError" /\ ret.at = "outputOrder"

\* C5 as stated: one destination output when the plan gives a
\* (toAddress, amount) pair and no output list; otherwise one output per
\* entry of the list, in order, the script when the entry has one and the
\* address otherwise; a state error if an entry has neither.
C5_PairOrList ==
  Recognized =>
    /\ (args.toAddress # "" /\ args.amount # <<>> /\ ~args.outputs.present) =>
         NonChange(ret.built) =
           <<[to |-> "address", dest |-> args.toAddress,
              satoshis |-> args.amount[1]]>>
    /\ args.outputs.present =>
         IF Assembled
         THEN /\ Len(NonChange(ret.built)) = Len(args.outputs.list)
              /\ \A k \in 1..Len(args.outputs.list) :
                   LET o == args.outputs.list[k]
                       b == NonChange(ret.built)[k]
                   IN  /\ b.satoshis = o.amount
                       /\ o.script # "" => b.to = "script" /\ b.dest = o.script
                       /\ o.script = "" => b.to = "address" /\ b.dest = o.toAddress
         ELSE ret.err = "StateError" /\ ret.outputs = <<>>

\* C5 amended: the single destination output is added when the plan gives
\* a toAddress and a non-zero amount and no output list; a plan whose
\* amount is zero or absent and that has no output list gets no
\* destination output.  The rest as stated.
C5_NonZeroPairOrList ==
  Recognized =>
    /\ (args.toAddress # "" /\ args.amount # <<>> /\ args.amount # <<0>>
          /\ ~args.outputs.present) =>
         NonChange(ret.built) =
           <<[to |-> "address", dest |-> args.toAddress,
              satoshis |-> args.amount[1]]>>
    /\ ((args.amount = <<>> \/ args.amount = <<0>>) /\ ~args.outputs.present) =>
         NonChange(ret.built) = <<>>
    /\ args.outputs.present =>
         IF Assembled
         THEN /\ Len(NonChange(ret.built)) = Len(args.outputs.list)
              /\ \A k \in 1..Len(args.outputs.list) :
                   LET o == args.outputs.list[k]
                       b == NonChange(ret.built)[k]
                   IN  /\ b.satoshis = o.amount
                       /\ o.script # "" => b.to = "script" /\ b.dest = o.script
                       /\ o.script = "" => b.to = "address" /\ b.dest = o.toAddress
         ELSE ret.err = "StateError" /\ ret.outputs = <<>>

C5_Witness ==
  /\ Recognized /\ ret.err = "none"
  /\ args.outputs.present /\ Len(args.outputs.list) = 2
  /\ args.outputs.list[1].script # "" /\ args.outputs.list[1].toAddress # ""
  /\ args.outputs.list[2].script = ""
  /\ ret.built[1].to = "script" /\ ret.built[2].to = "address"

SpecBuildTx == Init /\ [][CallBuildTx]_vars

\* ========================================================= formatAmount
\* Strings are sequences of one-character strings; a JavaScript number in
\* reach of formatAmount is a non-negative decimal m / 10^k.

\* Constants.UNITS (lib/common/constants.js).
UNITS ==
  [btc |-> [toSatoshis |-> 100000000,
            full  |-> [maxDecimals |-> 8, minDecimals |-> 8],
            short |-> [maxDecimals |-> 6, minDecimals |-> 2]],
   bit |-> [toSatoshis |-> 100,
            full  |-> [maxDecimals |-> 2, minDecimals |-> 2],
            short |-> [maxDecimals |-> 0, minDecimals |-> 0]]]

DigitChars == <<"0", "1", "2", "3", "4", "5", "6", "7", "8", "9">>

IsDigit(c) == \E d \in 1..10 : DigitChars[d] = c

DigitValue(c) == (CHOOSE d \in 1..10 : DigitChars[d] = c) - 1

RECURSIVE Pow10(_)
Pow10(k) == IF k = 0 THEN 1 ELSE 10 * Pow10(k - 1)

RECURSIVE Log10(_)
Log10(n) == IF n < 10 THEN 0 ELSE 1 + Log10(n \div 10)

RECURSIVE NatToChars(_)
NatToChars(n) ==
  IF n < 10 THEN <<DigitChars[n + 1]>>
  ELSE Append(NatToChars(n \div 10), DigitChars[(n % 10) + 1])

RECURSIVE CharsToNat(_)
CharsToNat(cs) ==
  IF cs = <<>> THEN 0
  ELSE 10 * CharsToNat(SubSeq(cs, 1, Len(cs) - 1)) + DigitValue(cs[Len(cs)])

Zeros(n) == [i \in 1..n |-> "0"]

\* A decimal without trailing zeros in its fraction.
RECURSIVE Normalize(_)
Normalize(x) ==
  IF x.k > 0 /\ x.m % 10 = 0 THEN Normalize([m |-> x.m \div 10, k |-> x.k - 1])
  ELSE x

\* satoshis / u.toSatoshis, line 170; toSatoshis is a power of ten.
Divide(satoshis, toSatoshis) == Normalize([m |-> satoshis, k |-> Log10(toSatoshis)])

\* Number.prototype.toString, line 146: decimal notation from 1e-6 up,
\* exponent notation ("5.1e-7") below.
NumberToString(x) ==
  LET y  == Normalize(x)
      ds == NatToChars(y.m)
      n  == Len(ds) - y.k
  IN  IF y.m = 0 THEN <<"0">>
      ELSE IF n > 0
      THEN IF y.k = 0 THEN ds
           ELSE SubSeq(ds, 1, n) \o <<".">> \o SubSeq(ds, n + 1, Len(ds))
      ELSE IF n > -6
      THEN <<"0", ".">> \o Zeros(-n) \o ds
      ELSE <<ds[1]>>
             \o (IF Len(ds) > 1 THEN <<".">> \o SubSeq(ds, 2, Len(ds)) ELSE <<>>)
             \o <<"e", "-">> \o NatToChars(1 - n)

\* String.prototype.split(sep) for a one-character separator.
RECURSIVE Split(_, _)
Split(str, sep) ==
  IF \A i \in 1..Len(str) : str[i] # sep THEN <<str>>
  ELSE LET i == CHOOSE j \in 1..Len(str) :
                  str[j] = sep /\ \A h \in 1..(j - 1) : str[h] # sep
       IN  <<SubSeq(str, 1, i - 1)>> \o Split(SubSeq(str, i + 1, Len(str)), sep)

\* String.prototype.substring(0, n).
Substring0(str, n) == SubSeq(str, 1, IF n < Len(str) THEN n ELSE Len(str))

\* The length of the run of digits of str that starts at position i.
RECURSIVE DigitRun(_, _)
DigitRun(str, i) ==
  IF i <= Len(str) /\ IsDigit(str[i]) THEN 1 + DigitRun(str, i + 1) ELSE 0

\* parseFloat, line 148: the longest prefix digits [. digits] [e- digits].
ParseFloat(str) ==
  LET a    == DigitRun(str, 1)
      dot  == a + 1 <= Len(str) /\ str[a + 1] = "."
      f    == IF dot THEN DigitRun(str, a + 2) ELSE 0
      p    == IF dot THEN a + 1 + f ELSE a
      neg  == p + 2 <= Len(str) /\ str[p + 1] = "e" /\ str[p + 2] = "-"
      e    == IF neg THEN DigitRun(str, p + 3) ELSE 0
      frac == IF dot THEN SubSeq(str, a + 2, a + 1 + f) ELSE <<>>
      ex   == IF e > 0 THEN CharsToNat(SubSeq(str, p + 3, p + 2 + e)) ELSE 0
  IN  Normalize([m |-> CharsToNat(SubSeq(str, 1, a) \o frac), k |-> f + ex])

\* clipDecimals, lines 145-149.
ClipDecimals(number, decimals) ==
  LET x == Split(NumberToString(number), ".")
      d == Substring0(IF Len(x) > 1 /\ x[2] # <<>> THEN x[2] ELSE <<"0">>, decimals)
  IN  ParseFloat(x[1] \o <<".">> \o d)

\* Number.prototype.toFixed, line 170: rounds to the nearest, f decimals.
\* (An exact decimal tie is decided by the binary value of the double; the
\* amounts enumerated below have none.)
ToFixed(x, f) ==
  LET n  == IF x.k <= f THEN x.m * Pow10(f - x.k)
            ELSE (x.m + 5 * Pow10(x.k - f - 1)) \div Pow10(x.k - f)
      ds == NatToChars(n)
      ps == IF Len(ds) > f THEN ds ELSE Zeros(f + 1 - Len(ds)) \o ds
  IN  IF f = 0 THEN ps
      ELSE SubSeq(ps, 1, Len(ps) - f) \o <<".">> \o SubSeq(ps, Len(ps) - f + 1, Len(ps))

\* _.dropRightWhile(x1, n == '0' && i >= minDecimals), lines 157-159
\* (i is the 0-based index of the character).
RECURSIVE DropRightZeros(_, _)
DropRightZeros(x1, minDecimals) ==
  IF x1 # <<>> /\ x1[Len(x1)] = "0" /\ Len(x1) - 1 >= minDecimals
  THEN DropRightZeros(SubSeq(x1, 1, Len(x1) - 1), minDecimals)
  ELSE x1

\* x0.replace(/\B(?=(\d{3})+(?!\d))/g, thousands), line 162, on digits.
RECURSIVE Group3(_, _)
Group3(x0, thousands) ==
  IF Len(x0) <= 3 THEN x0
  ELSE Group3(SubSeq(x0, 1, Len(x0) - 3), thousands)
         \o <<thousands>> \o SubSeq(x0, Len(x0) - 2, Len(x0))

\* String.prototype.replace(a, b): the first occurrence only.
ReplaceFirst(str, a, b) ==
  IF \A i \in 1..Len(str) : str[i] # a THEN str
  ELSE LET i == CHOOSE j \in 1..Len(str) :
                  str[j] = a /\ \A h \in 1..(j - 1) : str[h] # a
       IN  [str EXCEPT ![i] = b]

\* addSeparators, lines 151-164.
AddSeparators(nStr, thousands, decimal, minDecimals) ==
  LET x  == Split(ReplaceFirst(nStr, ".", decimal), decimal)
      x1 == DropRightZeros(IF Len(x) > 1 THEN x[2] ELSE <<>>, minDecimals)
      x2 == IF Len(x) > 1 THEN <<decimal>> \o x1 ELSE <<>>
  IN  Group3(x[1], thousands) \o x2

\* Utils.formatAmount, lines 141-172.  satoshis is [isNumber, v]; opts is
\* [fullPrecision, thousandsSeparator, decimalSeparator], "" when not given.
FormatAmount(satoshis, unit, opts) ==
  IF ~satoshis.isNumber THEN [err |-> "ArgumentError", str |-> <<>>]
  ELSE IF unit \notin DOMAIN UNITS THEN [err |-> "ArgumentError", str |-> <<>>]
  ELSE
  LET u         == UNITS[unit]
      precision == IF opts.fullPrecision THEN u.full ELSE u.short
      amount    == ToFixed(ClipDecimals(Divide(satoshis.v, u.toSatoshis),
                                        precision.maxDecimals),
                           precision.maxDecimals)
  IN  [err |-> "none",
       str |-> AddSeparators(amount,
                 IF opts.thousandsSeparator = "" THEN "," ELSE opts.thousandsSeparator,
                 IF opts.decimalSeparator = "" THEN "." ELSE opts.decimalSeparator,
                 precision.minDecimals)]

\* ---------------------------------------------------- amounts enumerated
SatoshiAmounts ==
  {0, 1, 9, 10, 49, 51, 60, 99, 100, 101, 999, 1000, 1234, 1299, 49999,
   100000, 123456, 999999, 1000000, 12345611, 12345678, 100000000,
   123456789, 400000000, 400050000, 2147483647}

FormatOptions ==
  { [fullPrecision |-> f, thousandsSeparator |-> t.th, decimalSeparator |-> t.dec] :
      f \in BOOLEAN,
      t \in { [th |-> "", dec |-> ""], [th |-> ".", dec |-> ","],
              [th |-> " ", dec |-> ""] } }

CallFormatAmount ==
  /\ op = "none"
  /\ \E v \in SatoshiAmounts, isNumber \in BOOLEAN,
        unit \in {"btc", "bit", "sat"}, opts \in FormatOptions :
       /\ op' = "formatAmount"
       /\ args' = [satoshis |-> [isNumber |-> isNumber, v |-> v],
                   unit |-> unit, opts |-> opts]
       /\ ret' = FormatAmount([isNumber |-> isNumber, v |-> v], unit, opts)

SpecFormatAmount == Init /\ [][CallFormatAmount]_vars

\* -------------------------------------------------- formatAmount claims
\* The amount in the unit, truncated to the profile's maxDecimals, trailing
\* zero decimals removed down to minDecimals, the integer part grouped by
\* three: written out on integers.
RECURSIVE TrimTo(_, _)
TrimTo(frac, minDecimals) ==
  IF Len(frac) > minDecimals /\ frac[Len(frac)] = "0"
  THEN TrimTo(SubSeq(frac, 1, Len(frac) - 1), minDecimals)
  ELSE frac

RECURSIVE Grouped(_, _)
Grouped(n, th) ==
  IF n < 1000 THEN NatToChars(n)
  ELSE Grouped(n \div 1000, th) \o <<th>>
         \o Zeros(3 - Len(NatToChars(n % 1000))) \o NatToChars(n % 1000)

Truncated(v, toSatoshis, maxDecimals, minDecimals, th, dec) ==
  LET t    == v \div (toSatoshis \div Pow10(maxDecimals))
      ip   == t \div Pow10(maxDecimals)
      fv   == t % Pow10(maxDecimals)
      frac == Zeros(maxDecimals - Len(NatToChars(fv))) \o NatToChars(fv)
  IN  IF maxDecimals = 0 THEN Grouped(ip, th)
      ELSE Grouped(ip, th) \o <<dec>> \o TrimTo(frac, minDecimals)

ExpectedAmount ==
  LET u == UNITS[args.unit]
      p == IF args.opts.fullPrecision THEN u.full ELSE u.short
  IN  Truncated(args.satoshis.v, u.toSatoshis, p.maxDecimals, p.minDecimals,
                IF args.opts.thousandsSeparator = "" THEN ","
                ELSE args.opts.thousandsSeparator,
                IF args.opts.decimalSeparator = "" THEN "."
                ELSE args.opts.decimalSeparator)

C10_TruncatesFromOneMicro ==
  (op = "formatAmount" /\ ~(args.unit = "btc" /\ ~args.opts.fullPrecision
                             /\ args.satoshis.v \in 51..99)) =>
    IF args.satoshis.isNumber /\ args.unit \in DOMAIN UNITS
    THEN ret.err = "none" /\ ret.str = ExpectedAmount
    ELSE ret.err = "ArgumentError"

\* ======================================================== verifyMessage
\* The cryptographic library is a collaborator: a digest is a tagged copy
\* of what was hashed, a signature names the digest and the private key
\* that signed it, and it verifies under the public key of that private
\* key only.

PrivateKeys == {"privA", "privB"}

PublicKeyOf(priv) == IF priv = "privA" THEN "pubA" ELSE "pubB"

ValidPublicKeys == {PublicKeyOf(k) : k \in PrivateKeys}

\* Utils.hashMessage, lines 41-47 (called with non-empty text).
HashMessage(text) == <<"sha256sha256-reversed", text>>

\* Utils.signMessage, lines 50-55: the signature as a string.
SignMessage(text, privKey) ==
  [form |-> "der", hash |-> HashMessage(text), key |-> privKey]

\* The signature arguments: undefined, '', a string that is no signature
\* ('b00m'), and the signatures signMessage makes.
NoSignature == [form |-> "undefined", hash |-> <<>>, key |-> ""]

EmptySignature == [form |-> "empty", hash |-> <<>>, key |-> ""]

MalformedSignature == [form |-> "malformed", hash |-> <<>>, key |-> ""]

\* crypto.ECDSA.verify(hash, sig, pub, 'little'), line 70.
EcdsaVerify(hash, sig, pub) == sig.hash = hash /\ PublicKeyOf(sig.key) = pub

\* Utils.verifyMessage, lines 58-74.  new PublicKey(pubKey) (line 65) is
\* outside the try block; Signature.fromString and ECDSA.verify are inside.
VerifyMessageNoCatch(text, signature, pubKey) ==
  IF text = "" THEN [err |-> "ArgumentError", value |-> FALSE]
  ELSE IF pubKey = "" THEN [err |-> "ArgumentError", value |-> FALSE]
  ELSE IF signature.form \in {"undefined", "empty"}
  THEN [err |-> "none", value |-> FALSE]
  ELSE IF pubKey \notin ValidPublicKeys
  THEN [err |-> "InvalidPublicKey", value |-> FALSE]
  ELSE IF signature.form # "der"
  THEN [err |-> "InvalidSignature", value |-> FALSE]
  ELSE [err |-> "none", value |-> EcdsaVerify(HashMessage(text), signature, pubKey)]

VerifyMessage(text, signature, pubKey) ==
  IF text = "" THEN [err |-> "ArgumentError", value |-> FALSE]
  ELSE IF pubKey = "" THEN [err |-> "ArgumentError", value |-> FALSE]
  ELSE IF signature.form \in {"undefined", "empty"}
  THEN [err |-> "none", value |-> FALSE]
  ELSE IF pubKey \notin ValidPublicKeys
  THEN [err |-> "InvalidPublicKey", value |-> FALSE]
  ELSE IF signature.form # "der"
  THEN [err |-> "none", value |-> FALSE]
  ELSE [err |-> "none", value |-> EcdsaVerify(HashMessage(text), signature, pubKey)]

Texts == {"", "hola", "adios", "hello world"}

Signatures ==
  {NoSignature, EmptySignature, MalformedSignature}
    \cup {SignMessage(t, k) : t \in Texts \ {""}, k \in PrivateKeys}

PublicKeyArguments == ValidPublicKeys \cup {"", "02zz"}

CallVerifyMessage ==
  /\ op = "none"
  /\ \E text \in Texts, signature \in Signatures, pubKey \in PublicKeyArguments :
       /\ op' = "verifyMessage"
       /\ args' = [text |-> text, signature |-> signature, pubKey |-> pubKey]
       /\ ret' = VerifyMessage(text, signature, pubKey)

SpecVerifyMessage == Init /\ [][CallVerifyMessage]_vars

\* ------------------------------------------------- verifyMessage claims
IsVerify == op = "verifyMessage"

\* The signature was made by signMessage over this text with the private
\* key of this public key.
Verifies ==
  /\ args.signature.form = "der"
  /\ args.signature.hash = <<"sha256sha256-reversed", args.text>>
  /\ \E k \in PrivateKeys : args.signature.key = k /\ PublicKeyOf(k) = args.pubKey

\* C6 as stated: for every non-empty text and every supplied public key,
\* verifyMessage never throws and returns false when the signature is
\* absent, malformed or does not verify, and true only when it verifies.
C6_NeverThrows ==
  (IsVerify /\ args.text # "" /\ args.pubKey # "") =>
    /\ ret.err = "none"
    /\ ret.value = Verifies

\* C6 amended: the same for every non-empty text and every well-formed
\* public key; with a public key string that is no public key the call
\* returns false when the signature is absent and throws otherwise.
C6_NeverThrowsValidKey ==
  (IsVerify /\ args.text # "" /\ args.pubKey # "") =>
    IF args.pubKey \in ValidPublicKeys
    THEN ret.err = "none" /\ ret.value = Verifies
    ELSE IF args.signature.form \in {"undefined", "empty"}
    THEN ret.err = "none" /\ ret.value = FALSE
    ELSE ret.err # "none"

C6_Witness ==
  /\ IsVerify /\ args.text = "hola" /\ args.pubKey = "pubA"
  /\ args.signature.form = "malformed"
  /\ ret.err = "none" /\ ret.value = FALSE

\* ======================================================== deriveAddress
MaxRing == 2

XPubKeys == {"xpubA", "xpubB", "xpubC"}

\* new HDPublicKey(xPubKey).deriveChild(path).publicKey, lines 104-105.
DeriveChild(xPubKey, path) == [parent |-> xPubKey, path |-> path]

\* PublicKey.prototype.toString, line 122.
PublicKeyToString(pub) == <<"pub", pub.parent, pub.path>>

\* _.map(publicKeyRing, ...), lines 103-106: one key per entry, in order.
DerivePublicKeysReversed(publicKeyRing, path) ==
  [k \in 1..Len(publicKeyRing) |->
     DeriveChild(publicKeyRing[Len(publicKeyRing) + 1 - k].xPubKey, path)]

DerivePublicKeys(publicKeyRing, path) ==
  [k \in 1..Len(publicKeyRing) |-> DeriveChild(publicKeyRing[k].xPubKey, path)]

NoAddress == [type |-> "none", keys |-> {}, m |-> 0, network |-> ""]

\* Utils.deriveAddress, lines 100-124.  Address.createMultisig sorts the
\* keys into the script and refuses a threshold above the key count.
DeriveAddress(scriptType, publicKeyRing, path, m, network) ==
  IF scriptType \notin SCRIPT_TYPES
  THEN [err |-> "ArgumentError", address |-> NoAddress, path |-> "", publicKeys |-> <<>>]
  ELSE IF \E k \in 1..Len(publicKeyRing) : publicKeyRing[k].xPubKey \notin XPubKeys
  THEN [err |-> "InvalidXPubKey", address |-> NoAddress, path |-> "", publicKeys |-> <<>>]
  ELSE
  LET publicKeys == DerivePublicKeys(publicKeyRing, path)
  IN  IF scriptType = "P2SH"
      THEN IF m > Len(publicKeys)
           THEN [err |-> "InvalidThreshold", address |-> NoAddress, path |-> "",
                 publicKeys |-> <<>>]
           ELSE [err |-> "none",
                 address |-> [type |-> "p2sh", m |-> m, network |-> network,
                              keys |-> {publicKeys[k] : k \in 1..Len(publicKeys)}],
                 path |-> path,
                 publicKeys |-> [k \in 1..Len(publicKeys) |->
                                   PublicKeyToString(publicKeys[k])]]
      ELSE IF Len(publicKeys) # 1
           THEN [err |-> "StateError", address |-> NoAddress, path |-> "",
                 publicKeys |-> <<>>]
           ELSE [err |-> "none",
                 address |-> [type |-> "p2pkh", m |-> 0, network |-> network,
                              keys |-> {publicKeys[1]}],
                 path |-> path,
                 publicKeys |-> <<PublicKeyToString(publicKeys[1])>>]

RingEntries == {[xPubKey |-> x] : x \in XPubKeys \cup {"not-an-xpub"}}

CallDeriveAddress ==
  /\ op = "none"
  /\ \E scriptType \in SCRIPT_TYPES \cup {"P2WPKH"},
        publicKeyRing \in SeqUpTo(RingEntries, MaxRing),
        path \in {"m/0/1", "m/1/5"}, m \in 1..(MaxRing + 1),
        network \in {"livenet", "testnet"} :
       /\ op' = "deriveAddress"
       /\ args' = [scriptType |-> scriptType, publicKeyRing |-> publicKeyRing,
                   path |-> path, m |-> m, network |-> network]
       /\ ret' = DeriveAddress(scriptType, publicKeyRing, path, m, network)

SpecDeriveAddress == Init /\ [][CallDeriveAddress]_vars

\* ------------------------------------------------- deriveAddress claims
IsDerive == op = "deriveAddress"

\* C7: deriveAddress fails (no address) when the scheme is not recognized
\* and when P2PKH is requested with a ring that does not have exactly one
\* entry; for P2SH it derives one public key per ring entry and returns
\* them in ring order together with the unchanged path.
C7_DeriveAddress ==
  IsDerive =>
    /\ args.scriptType \notin {"P2SH", "P2PKH"} =>
         ret.err = "ArgumentError" /\ ret.address.type = "none"
    /\ (args.scriptType = "P2PKH" /\ Len(args.publicKeyRing) # 1) =>
         ret.err # "none" /\ ret.address.type = "none"
    /\ (args.scriptType = "P2SH" /\ ret.err = "none") =>
         /\ Len(ret.publicKeys) = Len(args.publicKeyRing)
         /\ \A k \in 1..Len(args.publicKeyRing) :
              ret.publicKeys[k] = <<"pub", args.publicKeyRing[k].xPubKey, args.path>>
         /\ ret.path = args.path
    /\ ( /\ args.scriptType = "P2SH"
         /\ args.m <= Len(args.publicKeyRing)
         /\ \A k \in 1..Len(args.publicKeyRing) :
              args.publicKeyRing[k].xPubKey \in XPubKeys )
         => ret.err = "none"

C7_Witness ==
  /\ IsDerive /\ args.scriptType = "P2SH" /\ ret.err = "none"
  /\ Len(args.publicKeyRing) = 2
  /\ args.publicKeyRing[1] # args.publicKeyRing[2]
  /\ ret.publicKeys = <<<<"pub", args.publicKeyRing[1].xPubKey, args.path>>,
                        <<"pub", args.publicKeyRing[2].xPubKey, args.path>>>>

\* ====================================== encryptMessage / decryptMessage
\* A string handled here is either plain text or the JSON envelope
\* sjcl.encrypt makes; both are records of one shape.  An envelope names
\* its iv, the key that sealed it and the text sealed; intact is FALSE
\* once any part of it was altered (the CCM tag no longer matches).
MaxIv == 2

PlainText(body) ==
  [kind |-> "text", body |-> body, key |-> "", iv |-> 0, intact |-> TRUE]

Envelope(body, key, iv) ==
  [kind |-> "envelope", body |-> body, key |-> key, iv |-> iv, intact |-> TRUE]

\* The keys as base64 strings: 128-bit keys, a key of 64 bits, and a
\* string that is not base64.
AesKeys == {"a2V5QUFBQUFBQUFBQUFBQQ==", "a2V5QkJCQkJCQkJCQkJCQg=="}

EncryptingKeys == AesKeys \cup {"c2hvcnQ=", "*not base64*"}

\* sjcl.codec.base64.toBits, lines 23 and 32.
IsBase64(encryptingKey) == encryptingKey # "*not base64*"

\* sjcl.encrypt, lines 24-27; iv is the random iv sjcl draws.
EncryptMessage(message, encryptingKey, iv) ==
  IF ~IsBase64(encryptingKey)
  THEN [err |-> "NotBase64", value |-> PlainText("")]
  ELSE IF encryptingKey \notin AesKeys
  THEN [err |-> "InvalidAesKeySize", value |-> PlainText("")]
  ELSE [err |-> "none", value |-> Envelope(message, encryptingKey, iv)]

\* sjcl.decrypt, line 33: throws on anything but an intact envelope sealed
\* with this key.
SjclDecrypt(encryptingKey, cyphertextJson) ==
  IF cyphertextJson.kind # "envelope"
  THEN [err |-> "InvalidJson", value |-> PlainText("")]
  ELSE IF encryptingKey \notin AesKeys
  THEN [err |-> "InvalidAesKeySize", value |-> PlainText("")]
  ELSE IF cyphertextJson.key # encryptingKey \/ ~cyphertextJson.intact
  THEN [err |-> "Corrupt", value |-> PlainText("")]
  ELSE [err |-> "none", value |-> PlainText(cyphertextJson.body)]

\* Utils.decryptMessage, lines 30-37.
DecryptMessageNoCatch(cyphertextJson, encryptingKey) ==
  IF ~IsBase64(encryptingKey) THEN [err |-> "NotBase64", value |-> cyphertextJson]
  ELSE SjclDecrypt(encryptingKey, cyphertextJson)

DecryptMessage(cyphertextJson, encryptingKey) ==
  IF ~IsBase64(encryptingKey) THEN [err |-> "none", value |-> cyphertextJson]
  ELSE LET r == SjclDecrypt(encryptingKey, cyphertextJson)
       IN  IF r.err # "none" THEN [err |-> "none", value |-> cyphertextJson]
           ELSE r

Messages == {"", "hello", "{\"iv\":\"x\"}"}

\* What decryptMessage may be handed: text that is no envelope, envelopes
\* made by encryptMessage, and such envelopes altered afterwards.
CypherTexts ==
  {PlainText(t) : t \in Messages}
    \cup {[Envelope(t, k, iv) EXCEPT !.intact = i] :
            t \in Messages, k \in AesKeys, iv \in 1..MaxIv, i \in BOOLEAN}

CallEncryptMessage ==
  /\ op = "none"
  /\ \E message \in Messages, encryptingKey \in EncryptingKeys, iv \in 1..MaxIv :
       /\ op' = "encryptMessage"
       /\ args' = [message |-> message, encryptingKey |-> encryptingKey]
       /\ ret' = EncryptMessage(message, encryptingKey, iv)

\* decryptMessage on any string, and on what encryptMessage just returned.
CallDecryptMessage ==
  \/ /\ op = "none"
     /\ \E cyphertextJson \in CypherTexts, encryptingKey \in EncryptingKeys :
          /\ op' = "decryptMessage"
          /\ args' = [cyphertextJson |-> cyphertextJson,
                      encryptingKey |-> encryptingKey, message |-> "", sealed |-> FALSE]
          /\ ret' = DecryptMessage(cyphertextJson, encryptingKey)
  \/ /\ op = "encryptMessage" /\ ret.err = "none"
     /\ op' = "decryptMessage"
     /\ args' = [cyphertextJson |-> ret.value, encryptingKey |-> args.encryptingKey,
                 message |-> args.message, sealed |-> TRUE]
     /\ ret' = DecryptMessage(ret.value, args.encryptingKey)

SpecCipher == Init /\ [][CallEncryptMessage \/ CallDecryptMessage]_vars

\* ------------------------------------------------ decryptMessage claims
IsDecrypt == op = "decryptMessage"

\* C8: decryptMessage never signals an error; when decryption fails
\* (no envelope, wrong or unusable key, altered envelope) it returns its
\* ciphertext argument unchanged; and decrypting what encryptMessage
\* returned, with the same key, gives back the plaintext.
C8_DecryptTotal ==
  IsDecrypt =>
    /\ ret.err = "none"
    /\ ( \/ args.cyphertextJson.kind # "envelope"
         \/ ~args.cyphertextJson.intact
         \/ args.cyphertextJson.key # args.encryptingKey )
         => ret.value = args.cyphertextJson
    /\ args.sealed =>
         /\ ret.value.kind = "text"
         /\ ret.value.body = args.message

C8_Witness ==
  /\ IsDecrypt /\ args.sealed /\ args.message = "hello"
  /\ ret.value.body = "hello" /\ ret.value # args.cyphertextJson

C8_WitnessWrongKey ==
  /\ IsDecrypt /\ args.cyphertextJson.kind = "envelope"
  /\ args.cyphertextJson.intact
  /\ args.encryptingKey \in AesKeys
  /\ args.cyphertextJson.key # args.encryptingKey
  /\ ret.value = args.cyphertextJson

\* ====================================================== getProposalHash
\* A JavaScript value is a record [t, s, n, o]: t is its type, s its
\* string, n its number, o the (key, value) pairs of an object in
\* insertion order.
JsUndefined == [t |-> "undefined", s |-> "", n |-> 0, o |-> <<>>]

JsString(str) == [t |-> "string", s |-> str, n |-> 0, o |-> <<>>]

JsNumber(num) == [t |-> "number", s |-> "", n |-> num, o |-> <<>>]

JsObject(pairs) == [t |-> "object", s |-> "", n |-> 0, o |-> pairs]

RECURSIVE Concat(_)
Concat(cs) == IF cs = <<>> THEN "" ELSE cs[1] \o Concat(Tail(cs))

\* String(value) as Array.prototype.join applies it: '' for undefined.
ToJoined(value) ==
  IF value.t = "string" THEN value.s
  ELSE IF value.t = "number" THEN Concat(NatToChars(value.n))
  ELSE ""

\* value || '', line 89.
OrEmpty(value) ==
  IF value.t = "undefined" \/ (value.t = "string" /\ value.s = "")
     \/ (value.t = "number" /\ value.n = 0)
  THEN JsString("") ELSE value

\* getOldHash, lines 88-90.
GetOldHashNoDefault(toAddress, amount, message, payProUrl) ==
  ToJoined(toAddress) \o "|" \o ToJoined(amount) \o "|"
    \o (IF message.t = "undefined" THEN "undefined" ELSE ToJoined(message)) \o "|"
    \o (IF payProUrl.t = "undefined" THEN "undefined" ELSE ToJoined(payProUrl))

GetOldHash(toAddress, amount, message, payProUrl) ==
  ToJoined(toAddress) \o "|" \o ToJoined(amount) \o "|"
    \o ToJoined(OrEmpty(message)) \o "|" \o ToJoined(OrEmpty(payProUrl))

\* The header keys enumerated, in the order Array.prototype.sort gives.
HeaderKeys == <<"amount", "message", "toAddress">>

KeyRank(key) == CHOOSE i \in 1..Len(HeaderKeys) : HeaderKeys[i] = key

\* json-stable-stringify sorts the keys of the object, line 97.
SortedPairsUnsorted(pairs) == pairs

SortedPairs(pairs) ==
  LET ranks == {KeyRank(pairs[i][1]) : i \in 1..Len(pairs)}
      Nth(k) == CHOOSE r \in ranks : Cardinality({q \in ranks : q < r}) = k - 1
  IN  [k \in 1..Len(pairs) |->
         pairs[CHOOSE i \in 1..Len(pairs) : KeyRank(pairs[i][1]) = Nth(k)]]

\* JSON of a scalar.
JsonOf(value) ==
  IF value.t = "string" THEN "\"" \o value.s \o "\""
  ELSE Concat(NatToChars(value.n))

RECURSIVE JoinPairs(_)
JoinPairs(pairs) ==
  IF pairs = <<>> THEN ""
  ELSE "\"" \o pairs[1][1] \o "\":" \o JsonOf(pairs[1][2])
         \o (IF Len(pairs) > 1 THEN "," ELSE "") \o JoinPairs(Tail(pairs))

\* Stringify(proposalHeader), line 97.
Stringify(header) == "{" \o JoinPairs(SortedPairs(header.o)) \o "}"

ArgumentAt(arguments, i) ==
  IF i <= Len(arguments) THEN arguments[i] ELSE JsUndefined

\* Utils.getProposalHash, lines 87-98; arguments is the argument list.
GetProposalHash(arguments) ==
  IF Len(arguments) > 1
  THEN GetOldHash(ArgumentAt(arguments, 1), ArgumentAt(arguments, 2),
                  ArgumentAt(arguments, 3), ArgumentAt(arguments, 4))
  ELSE Stringify(arguments[1])

\* All orders of the keys of a header.
Orderings(pairs) ==
  {q \in [1..Len(pairs) -> {pairs[i] : i \in 1..Len(pairs)}] :
     \A i, j \in 1..Len(pairs) : i # j => q[i] # q[j]}

HeaderValues(key) ==
  IF key = "amount" THEN {JsNumber(0), JsNumber(1500)}
  ELSE IF key = "message" THEN {JsString(""), JsString("hi")}
  ELSE {JsString("addr1"), JsString("addr2")}

Headers ==
  UNION { {JsObject(q) : q \in Orderings(p)} :
            p \in UNION { {<<>>},
                          {<<<<"amount", a>>>> : a \in HeaderValues("amount")},
                          {<<<<"amount", a>>, <<"message", m>>>> :
                             a \in HeaderValues("amount"), m \in HeaderValues("message")},
                          {<<<<"message", m>>, <<"toAddress", t>>>> :
                             m \in HeaderValues("message"), t \in HeaderValues("toAddress")},
                          {<<<<"amount", a>>, <<"message", m>>, <<"toAddress", t>>>> :
                             a \in HeaderValues("amount"), m \in HeaderValues("message"),
                             t \in HeaderValues("toAddress")} } }

PositionalArguments ==
  { SubSeq(<<t, a, m, u>>, 1, n) :
      t \in {JsString("addr1"), JsUndefined},
      a \in {JsNumber(0), JsNumber(1500), JsUndefined},
      m \in {JsString("hi"), JsString(""), JsUndefined},
      u \in {JsString("https://pay.pro/i/1"), JsString(""), JsUndefined},
      n \in 2..4 }

CallGetProposalHash ==
  /\ op = "none"
  /\ \E arguments \in {<<h>> : h \in Headers} \cup PositionalArguments :
       /\ op' = "getProposalHash"
       /\ args' = arguments
       /\ ret' = GetProposalHash(arguments)

SpecProposalHash == Init /\ [][CallGetProposalHash]_vars

\* ----------------------------------------------- getProposalHash claims
IsProposalHash == op = "getProposalHash"

Shown(value) ==
  IF value.t = "string" THEN value.s
  ELSE IF value.t = "number" THEN Concat(NatToChars(value.n))
  ELSE ""

\* C9: with one header object getProposalHash returns the canonical
\* serialization, the same for every order of the same keys and values;
\* with four positional arguments it returns
\* toAddress|amount|message|payProUrl, an absent message or payProUrl
\* rendered as the empty string.
C9_ProposalHash ==
  IsProposalHash =>
    /\ Len(args) = 1 =>
         /\ \A q \in Orderings(args[1].o) : GetProposalHash(<<JsObject(q)>>) = ret
         /\ args[1].o = <<<<"toAddress", JsString("addr1")>>,
                          <<"message", JsString("hi")>>,
                          <<"amount", JsNumber(1500)>>>>
              => ret = "{\"amount\":1500,\"message\":\"hi\",\"toAddress\":\"addr1\"}"
    /\ Len(args) = 4 =>
         ret = Shown(args[1]) \o "|" \o Shown(args[2]) \o "|"
                 \o (IF args[3].t = "string" THEN args[3].s ELSE "") \o "|"
                 \o (IF args[4].t = "string" THEN args[4].s ELSE "")

C9_Witness ==
  /\ IsProposalHash /\ Len(args) = 4
  /\ args[3].t = "undefined" /\ args[4].t = "string" /\ args[4].s # ""
  /\ ret = "addr1|1500||https://pay.pro/i/1"

C9_WitnessHeader ==
  /\ IsProposalHash /\ Len(args) = 1
  /\ args[1].o = <<<<"toAddress", JsString("addr1")>>,
                   <<"message", JsString("hi")>>,
                   <<"amount", JsNumber(1500)>>>>
  /\ ret = "{\"amount\":1500,\"message\":\"hi\",\"toAddress\":\"addr1\"}"

\* ================================================================ Spec
Next ==
  \/ CallBuildTx
  \/ CallFormatAmount
  \/ CallVerifyMessage
  \/ CallDeriveAddress
  \/ CallEncryptMessage
  \/ CallDecryptMessage
  \/ CallGetProposalHash

Spec == Init /\ [][Next]_vars

====
